---- MODULE Spec2Model ----
(***************************************************************************)
(* Model of streamlit_desktop_app.core: the port allocator find_free_port, *)
(* the readiness prober wait_for_server and the orchestrator               *)
(* start_desktop_app, together with the child process and the window they  *)
(* drive.  Time is counted in ticks of 0.1 s (the default retry interval). *)
(***************************************************************************)
EXTENDS Integers, Sequences, FiniteSets, TLC

\* ------------------------------------------------------------------ bounds
\* Largest max_attempts a direct caller of find_free_port passes.
MaxAttemptsArg == 3
\* The request and sleep counters of wait_for_server saturate here.
MaxCount == 4

\* ------------------------------------------------------- program constants
DefaultMinPort == 1024
DefaultMaxPort == 65535
DefaultMaxAttempts == 10
\* timeout: int = 10 seconds, in ticks of 0.1 s
DefaultTimeout == 100
\* retry_interval: float = 0.1 seconds, in ticks of 0.1 s
DefaultRetryInterval == 1

\* ------------------------------------------------------------ Python values
PyNone == [t |-> "none"]
PyStr(s) == [t |-> "str", v |-> s]
PyInt(n) == [t |-> "int", v |-> n]
PyList == [t |-> "list"]
PyDict(items) == [t |-> "dict", v |-> items]

IsStr(x) == x.t = "str"
IsInt(x) == x.t = "int"
IsDict(x) == x.t = "dict"

\* str.strip() on a string kept as a sequence of characters
RECURSIVE LStrip(_)
LStrip(s) == IF s # <<>> /\ Head(s) = " " THEN LStrip(Tail(s)) ELSE s
RECURSIVE RStrip(_)
RStrip(s) == IF s # <<>> /\ s[Len(s)] = " " THEN RStrip(SubSeq(s, 1, Len(s) - 1)) ELSE s
Strip(s) == RStrip(LStrip(s))

\* A dict is a sequence of <<key, value>> pairs in insertion order.
DictKeys(d) == {d[i][1] : i \in 1..Len(d)}
HasKey(d, k) == k \in DictKeys(d)
DictGet(d, k) == d[CHOOSE i \in 1..Len(d) : d[i][1] = k][2]
\* d[k] = v : an existing key keeps its position and takes the new value
DictSet(d, k, v) ==
    IF HasKey(d, k)
    THEN [i \in 1..Len(d) |-> IF d[i][1] = k THEN <<k, v>> ELSE d[i]]
    ELSE Append(d, <<k, v>>)
\* {**base, **extra}
RECURSIVE DictUpdate(_, _)
DictUpdate(base, extra) ==
    IF extra = <<>> THEN base
    ELSE DictUpdate(DictSet(base, Head(extra)[1], Head(extra)[2]), Tail(extra))

\* ------------------------------------------------------------------ inputs
\* What the file system says about script_path.
Scripts ==
    { [resolves |-> TRUE,  is_file |-> TRUE,  py |-> TRUE],
      [resolves |-> TRUE,  is_file |-> FALSE, py |-> TRUE],
      [resolves |-> TRUE,  is_file |-> TRUE,  py |-> FALSE],
      [resolves |-> FALSE, is_file |-> FALSE, py |-> FALSE] }
Titles ==
    { PyStr(<<"A", "p", "p">>), PyStr(<<>>), PyStr(<<" ", " ">>), PyNone }
Sizes == { PyInt(800), PyInt(0), PyStr(<<"8">>) }
OptionInputs ==
    { PyNone,
      PyList,
      PyDict(<< <<PyStr("theme.base"), PyInt(1)>> >>),
      PyDict(<< <<PyStr("theme.base"), PyStr("dark")>> >>),
      PyDict(<< <<PyStr("server.port"), PyStr("9999")>> >>),
      PyDict(<< <<PyStr("theme.base"), PyStr("dark")>>,
                <<PyStr("server.headless"), PyStr("false")>>,
                <<PyStr("server.address"), PyStr("0.0.0.0")>> >>) }
\* Ports the operating system hands out for a bind to port 0.
OSPorts == {1023, 12345}
MinPorts == {1024, 12345, 12346}
MaxPorts == {1023, 12345, 65535}
\* timeout arguments of a direct call of wait_for_server, in ticks
Timeouts == {0, 2}
\* Time a request takes, and time a sleep takes beyond its argument, in ticks.
Latencies == {0, 60}
Jitters == {0, 1}
StatusCodes == {200, 404, 503}
\* Keywords a direct caller of wait_for_server passes beyond port, timeout
\* and retry_interval.
KeywordSets == { {}, {<<"max_retries", 1>>} }

\* script_path and options arguments of a direct call of run_streamlit
PyPath(s) == [t |-> "path", v |-> s]
ScriptArgs == { PyStr("test_script.py"), PyPath("test_script.py") }
ConfigSets ==
    { <<>>,
      << <<PyStr("theme.base"), PyStr("dark")>>, <<PyStr("server.headless"), PyStr("true")>> >>,
      << <<PyStr("server.headless"), PyStr("true")>>, <<PyStr("theme.base"), PyStr("dark")>> >>,
      << <<PyStr("server.port"), PyInt(8501)>> >> }

Min(a, b) == IF a < b THEN a ELSE b

VARIABLES
    entry,          \* the function the caller invoked
    script_path, test_mode, title, width, height,
    options,        \* the local `options` of start_desktop_app
    caller_options, \* the options argument as the caller passed it
    pc,             \* position of start_desktop_app
    exc,            \* exception in flight inside start_desktop_app
    result, error,  \* how the entry function ended, and the exception class
    warnings,       \* option keys logging.warning was called for
    port,           \* the local `port` of start_desktop_app
    calls,          \* collaborators called by start_desktop_app, in order
    min_port, max_port, max_attempts, attempt, ffp_pc, ffp_port, binds, ffp_sleeps,
    bind_errors,    \* binds of the running find_free_port call that raised socket.error
    sock,           \* the `s` of the with block: "open" inside the block, else "none"
    open_socks,     \* probing sockets the running call has opened and not closed
    proc,           \* the child process
    proc_args,      \* the (script_path, options) arguments run_streamlit is called with
    argv,           \* sys.argv once run_streamlit has set it
    listener,       \* the process bound to the allocated port: "none", "child" or "other"
    cleanup_alive,  \* what is_alive() answered in the finally block
    wfs_pc, timeout, retry_interval, elapsed, response, requests, wfs_sleeps, wfs_exc,
    extra_kwargs,   \* keyword arguments of a direct wait_for_server call beyond its parameters
    probe,          \* how the last requests.get ended
    refused,        \* requests.get calls that raised ConnectionError
    window          \* the webview window

ffp_vars == <<min_port, max_port, max_attempts, attempt, ffp_pc, ffp_port, binds, ffp_sleeps,
              bind_errors, sock, open_socks>>
wfs_vars == <<wfs_pc, timeout, retry_interval, elapsed, response, requests, wfs_sleeps, wfs_exc,
              probe, refused>>
in_vars == <<entry, script_path, test_mode, title, width, height, caller_options, extra_kwargs>>
vars == <<entry, script_path, test_mode, title, width, height, options, caller_options,
          pc, exc, result, error, warnings, port, calls,
          min_port, max_port, max_attempts, attempt, ffp_pc, ffp_port, binds, ffp_sleeps,
          bind_errors, sock, open_socks, proc, proc_args, argv, listener, cleanup_alive,
          wfs_pc, timeout, retry_interval, elapsed, response, requests, wfs_sleeps, wfs_exc,
          extra_kwargs, probe, refused, window>>


\* ---------------------------------------------------------------- exceptions
NoExc == [cls |-> "none", msg |-> ""]
Exc(cls, msg) == [cls |-> cls, msg |-> msg]

\* ------------------------------------------------------------------- Init
InitIdle ==
    /\ exc = NoExc /\ result = "none" /\ error = NoExc
    /\ warnings = <<>> /\ port = 0 /\ calls = <<>>
    /\ proc = "none" /\ argv = <<>> /\ listener = "none" /\ cleanup_alive = "unknown"
    /\ attempt = 0 /\ ffp_port = 0 /\ binds = 0 /\ ffp_sleeps = 0 /\ bind_errors = 0
    /\ sock = "none" /\ open_socks = 0
    /\ elapsed = 0 /\ response = 0 /\ requests = 0 /\ wfs_sleeps = 0 /\ wfs_exc = NoExc
    /\ probe = "none" /\ refused = 0
    /\ window = "none"

NoAppInputs ==
    /\ script_path = [resolves |-> TRUE, is_file |-> TRUE, py |-> TRUE]
    /\ test_mode = FALSE
    /\ title = PyNone /\ width = PyNone /\ height = PyNone
    /\ caller_options = PyNone /\ options = PyNone
    /\ pc = "idle"

InitApp ==
    /\ entry = "start_desktop_app"
    /\ script_path \in Scripts
    /\ test_mode \in BOOLEAN
    /\ title \in Titles
    /\ width \in Sizes
    /\ height \in Sizes
    /\ caller_options \in OptionInputs
    /\ options = caller_options
    /\ pc = "validate"
    /\ min_port = 0 /\ max_port = 0 /\ max_attempts = 0 /\ ffp_pc = "idle"
    /\ timeout = 0 /\ retry_interval = 0 /\ wfs_pc = "idle"
    /\ extra_kwargs = {}
    /\ proc_args = <<>>

InitFindFreePort ==
    /\ entry = "find_free_port"
    /\ NoAppInputs
    /\ min_port \in MinPorts
    /\ max_port \in MaxPorts
    /\ max_attempts \in 0..MaxAttemptsArg
    /\ ffp_pc = "attempt"
    /\ timeout = 0 /\ retry_interval = 0 /\ wfs_pc = "idle"
    /\ extra_kwargs = {}
    /\ proc_args = <<>>

InitWaitForServer ==
    /\ entry = "wait_for_server"
    /\ NoAppInputs
    /\ min_port = 0 /\ max_port = 0 /\ max_attempts = 0 /\ ffp_pc = "idle"
    /\ timeout \in Timeouts
    /\ retry_interval = DefaultRetryInterval
    /\ extra_kwargs \in KeywordSets
    /\ wfs_pc = "call"
    /\ proc_args = <<>>

InitRunStreamlit ==
    /\ entry = "run_streamlit"
    /\ NoAppInputs
    /\ min_port = 0 /\ max_port = 0 /\ max_attempts = 0 /\ ffp_pc = "idle"
    /\ timeout = 0 /\ retry_interval = 0 /\ wfs_pc = "idle"
    /\ extra_kwargs = {}
    /\ proc_args \in {<<s, PyDict(o)>> : s \in ScriptArgs, o \in ConfigSets}

Init == InitIdle /\ (InitApp \/ InitFindFreePort \/ InitWaitForServer \/ InitRunStreamlit)

\* --------------------------------------------------------- find_free_port
\* How a call of find_free_port ends, seen by a direct caller.
FfpEnds(kind, e) ==
    IF entry = "find_free_port"
    THEN result' = kind /\ error' = e
    ELSE UNCHANGED <<result, error>>

InRange(p) == min_port <= p /\ p <= max_port

ffp_frame == <<in_vars, options, pc, exc, warnings, port, calls, proc, proc_args, argv, listener,
               cleanup_alive, wfs_vars, window, min_port, max_port, max_attempts>>

\* with socket.socket(socket.AF_INET, socket.SOCK_STREAM) as s: the
\* iteration opens its probing socket.
FfpSocket ==
    /\ ffp_pc = "attempt" /\ attempt < max_attempts /\ sock = "none"
    /\ sock' = "open"
    /\ open_socks' = open_socks + 1
    /\ UNCHANGED <<attempt, ffp_pc, ffp_port, binds, ffp_sleeps, bind_errors, result, error,
                   ffp_frame>>

\* Variant: a failed bind is retried at once, without the backoff sleep.
FfpBindFails_NoSleep ==
    /\ ffp_pc = "attempt" /\ attempt < max_attempts /\ sock = "open"
    /\ sock' = "none" /\ open_socks' = open_socks - 1
    /\ binds' = binds + 1
    /\ bind_errors' = bind_errors + 1
    /\ IF attempt = max_attempts - 1
       THEN /\ ffp_pc' = "raised"
            /\ FfpEnds("raised", Exc("PortBindingError", "Failed to find an available port"))
            /\ UNCHANGED attempt
       ELSE /\ attempt' = attempt + 1
            /\ FfpEnds("none", NoExc)
            /\ UNCHANGED ffp_pc
    /\ UNCHANGED <<ffp_sleeps, ffp_port, ffp_frame>>

\* Variant: the backoff sleep comes before the test for the last attempt.
FfpBindFails_SleepsOnLast ==
    /\ ffp_pc = "attempt" /\ attempt < max_attempts /\ sock = "open"
    /\ sock' = "none" /\ open_socks' = open_socks - 1
    /\ binds' = binds + 1
    /\ bind_errors' = bind_errors + 1
    /\ ffp_sleeps' = ffp_sleeps + 1
    /\ IF attempt = max_attempts - 1
       THEN /\ ffp_pc' = "raised"
            /\ FfpEnds("raised", Exc("PortBindingError", "Failed to find an available port"))
            /\ UNCHANGED attempt
       ELSE /\ attempt' = attempt + 1
            /\ FfpEnds("none", NoExc)
            /\ UNCHANGED ffp_pc
    /\ UNCHANGED <<ffp_port, ffp_frame>>

\* Variant: the socket of a failed bind is left open (no with block).
FfpBindFails_LeaksSocket ==
    /\ ffp_pc = "attempt" /\ attempt < max_attempts /\ sock = "open"
    /\ sock' = "none" /\ UNCHANGED open_socks
    /\ binds' = binds + 1
    /\ bind_errors' = bind_errors + 1
    /\ IF attempt = max_attempts - 1
       THEN /\ ffp_pc' = "raised"
            /\ FfpEnds("raised", Exc("PortBindingError", "Failed to find an available port"))
            /\ UNCHANGED <<attempt, ffp_sleeps>>
       ELSE /\ ffp_sleeps' = ffp_sleeps + 1
            /\ attempt' = attempt + 1
            /\ FfpEnds("none", NoExc)
            /\ UNCHANGED ffp_pc
    /\ UNCHANGED <<ffp_port, ffp_frame>>

\* The bind raises socket.error, the with block closes the socket: the last
\* attempt raises PortBindingError, any earlier one sleeps 0.1 s and goes on
\* with the next attempt.
FfpBindFails ==
    /\ ffp_pc = "attempt" /\ attempt < max_attempts /\ sock = "open"
    /\ sock' = "none" /\ open_socks' = open_socks - 1
    /\ binds' = binds + 1
    /\ bind_errors' = bind_errors + 1
    /\ IF attempt = max_attempts - 1
       THEN /\ ffp_pc' = "raised"
            /\ FfpEnds("raised", Exc("PortBindingError", "Failed to find an available port"))
            /\ UNCHANGED <<attempt, ffp_sleeps>>
       ELSE /\ ffp_sleeps' = ffp_sleeps + 1
            /\ attempt' = attempt + 1
            /\ FfpEnds("none", NoExc)
            /\ UNCHANGED ffp_pc
    /\ UNCHANGED <<ffp_port, ffp_frame>>

\* Variant: the port read back from the socket is returned unchecked.
FfpBindSucceeds_NoRangeCheck ==
    /\ ffp_pc = "attempt" /\ attempt < max_attempts /\ sock = "open"
    /\ sock' = "none" /\ open_socks' = open_socks - 1
    /\ \E p \in OSPorts :
        /\ binds' = binds + 1
        /\ ffp_pc' = "returned" /\ ffp_port' = p
        /\ FfpEnds("returned", NoExc)
    /\ UNCHANGED <<attempt, ffp_sleeps, bind_errors, ffp_frame>>

\* Variant: a port outside the range ends the search at once.
FfpBindSucceeds_FatalOutOfRange ==
    /\ ffp_pc = "attempt" /\ attempt < max_attempts /\ sock = "open"
    /\ sock' = "none" /\ open_socks' = open_socks - 1
    /\ \E p \in OSPorts :
        /\ binds' = binds + 1
        /\ IF InRange(p)
           THEN /\ ffp_pc' = "returned" /\ ffp_port' = p
                /\ FfpEnds("returned", NoExc)
           ELSE /\ ffp_pc' = "raised"
                /\ FfpEnds("raised", Exc("PortBindingError", "Failed to find a port in the allowed range"))
                /\ UNCHANGED ffp_port
    /\ UNCHANGED <<attempt, ffp_sleeps, bind_errors, ffp_frame>>

\* The bind succeeds and the OS assigns port p; the with block closes the
\* socket on the return as on the fall-through.
FfpBindSucceeds ==
    /\ ffp_pc = "attempt" /\ attempt < max_attempts /\ sock = "open"
    /\ sock' = "none" /\ open_socks' = open_socks - 1
    /\ \E p \in OSPorts :
        /\ binds' = binds + 1
        /\ IF InRange(p)
           THEN /\ ffp_pc' = "returned" /\ ffp_port' = p
                /\ FfpEnds("returned", NoExc)
                /\ UNCHANGED attempt
           ELSE /\ attempt' = attempt + 1
                /\ FfpEnds("none", NoExc)
                /\ UNCHANGED <<ffp_pc, ffp_port>>
    /\ UNCHANGED <<ffp_sleeps, bind_errors, ffp_frame>>

\* The for loop ran out of attempts.
FfpExhausted ==
    /\ ffp_pc = "attempt" /\ attempt >= max_attempts
    /\ ffp_pc' = "raised"
    /\ FfpEnds("raised", Exc("PortBindingError", "Failed to find a port in the allowed range"))
    /\ UNCHANGED <<attempt, ffp_port, binds, ffp_sleeps, bind_errors, sock, open_socks,
                   ffp_frame>>

\* -------------------------------------------------------- wait_for_server
WfsEnds(kind, e) ==
    IF entry = "wait_for_server"
    THEN result' = kind /\ error' = e
    ELSE UNCHANGED <<result, error>>

\* time.time() - start_time matters only through `> timeout`.
Advance(t, d) == Min(t + d, timeout + 1)
Count(n) == Min(n + 1, MaxCount)

\* A server answers on the port: the child once it serves, or whatever
\* listens there when wait_for_server is called on its own.
ServerUp == entry = "wait_for_server" \/ proc = "serving" \/ listener = "other"

wfs_frame == <<in_vars, options, pc, exc, warnings, port, calls, proc, proc_args, argv, listener,
               cleanup_alive, ffp_vars, window, timeout, retry_interval>>

\* The call binds its arguments to (port, timeout, retry_interval): a keyword
\* outside the signature is a TypeError; otherwise start_time is taken.
WfsCall ==
    /\ wfs_pc = "call"
    /\ IF extra_kwargs # {}
       THEN /\ wfs_pc' = "raised"
            /\ wfs_exc' = Exc("TypeError", "unexpected keyword argument")
            /\ WfsEnds("raised", wfs_exc')
       ELSE /\ wfs_pc' = "request"
            /\ WfsEnds("none", NoExc)
            /\ UNCHANGED wfs_exc
    /\ UNCHANGED <<elapsed, response, requests, wfs_sleeps, probe, refused, wfs_frame>>

\* requests.get returns a response: status 200 leaves the loop, any other
\* status goes straight to the next request.
WfsResponse ==
    /\ wfs_pc = "request" /\ ServerUp
    /\ \E status \in StatusCodes, lat \in Latencies :
        /\ requests' = Count(requests)
        /\ elapsed' = Advance(elapsed, lat)
        /\ response' = status
        /\ probe' = "response"
        /\ IF status = 200
           THEN wfs_pc' = "returned" /\ WfsEnds("returned", NoExc)
           ELSE wfs_pc' = "request" /\ WfsEnds("none", NoExc)
    /\ UNCHANGED <<wfs_sleeps, wfs_exc, refused, wfs_frame>>

\* Variant: a refused probe is retried at once, without the sleep.
WfsConnectionError_NoSleep ==
    /\ wfs_pc = "request"
    /\ \E lat \in Latencies :
        /\ requests' = Count(requests)
        /\ elapsed' = Advance(elapsed, lat)
        /\ probe' = "refused"
        /\ refused' = Count(refused)
        /\ IF elapsed' > timeout
           THEN /\ wfs_pc' = "raised"
                /\ wfs_exc' = Exc("TimeoutError", "Streamlit server did not start in time")
                /\ WfsEnds("raised", wfs_exc')
           ELSE /\ wfs_pc' = "request"
                /\ WfsEnds("none", NoExc)
                /\ UNCHANGED wfs_exc
        /\ UNCHANGED wfs_sleeps
    /\ UNCHANGED <<response, wfs_frame>>

\* Variant: the timeout fires as soon as the elapsed time reaches timeout.
WfsConnectionError_TimeoutAtEqual ==
    /\ wfs_pc = "request"
    /\ \E lat \in Latencies :
        /\ requests' = Count(requests)
        /\ elapsed' = Advance(elapsed, lat)
        /\ probe' = "refused"
        /\ refused' = Count(refused)
        /\ IF elapsed' >= timeout
           THEN /\ wfs_pc' = "raised"
                /\ wfs_exc' = Exc("TimeoutError", "Streamlit server did not start in time")
                /\ WfsEnds("raised", wfs_exc')
                /\ UNCHANGED wfs_sleeps
           ELSE /\ wfs_pc' = "sleep"
                /\ wfs_sleeps' = Count(wfs_sleeps)
                /\ WfsEnds("none", NoExc)
                /\ UNCHANGED wfs_exc
    /\ UNCHANGED <<response, wfs_frame>>

\* Variant: a bounded number of retries, ended by NetworkError.
WfsConnectionError_RetryBound ==
    /\ wfs_pc = "request"
    /\ \E lat \in Latencies :
        /\ requests' = Count(requests)
        /\ elapsed' = Advance(elapsed, lat)
        /\ probe' = "refused"
        /\ refused' = Count(refused)
        /\ IF elapsed' > timeout
           THEN /\ wfs_pc' = "raised"
                /\ wfs_exc' = Exc("TimeoutError", "Streamlit server did not start in time")
                /\ WfsEnds("raised", wfs_exc')
                /\ UNCHANGED wfs_sleeps
           ELSE IF wfs_sleeps >= 1
           THEN /\ wfs_pc' = "raised"
                /\ wfs_exc' = Exc("NetworkError", "retries exhausted")
                /\ WfsEnds("raised", wfs_exc')
                /\ UNCHANGED wfs_sleeps
           ELSE /\ wfs_pc' = "sleep"
                /\ wfs_sleeps' = Count(wfs_sleeps)
                /\ WfsEnds("none", NoExc)
                /\ UNCHANGED wfs_exc
    /\ UNCHANGED <<response, wfs_frame>>

\* requests.get raises ConnectionError: TimeoutError once the elapsed time
\* exceeds timeout, otherwise time.sleep(retry_interval).
WfsConnectionError ==
    /\ wfs_pc = "request"
    /\ \E lat \in Latencies :
        /\ requests' = Count(requests)
        /\ elapsed' = Advance(elapsed, lat)
        /\ probe' = "refused"
        /\ refused' = Count(refused)
        /\ IF elapsed' > timeout
           THEN /\ wfs_pc' = "raised"
                /\ wfs_exc' = Exc("TimeoutError", "Streamlit server did not start in time")
                /\ WfsEnds("raised", wfs_exc')
                /\ UNCHANGED wfs_sleeps
           ELSE /\ wfs_pc' = "sleep"
                /\ wfs_sleeps' = Count(wfs_sleeps)
                /\ WfsEnds("none", NoExc)
                /\ UNCHANGED wfs_exc
    /\ UNCHANGED <<response, wfs_frame>>

\* time.sleep(retry_interval) returns.
WfsSleepReturns ==
    /\ wfs_pc = "sleep"
    /\ \E j \in Jitters : elapsed' = Advance(elapsed, retry_interval + j)
    /\ wfs_pc' = "request"
    /\ UNCHANGED <<response, requests, wfs_sleeps, wfs_exc, probe, refused, result, error,
                   wfs_frame>>

\* Variant: any request error is slept on and retried.
WfsRequestException_Retries ==
    /\ wfs_pc = "request"
    /\ requests' = Count(requests)
    /\ probe' = "error"
    /\ wfs_pc' = "sleep"
    /\ wfs_sleeps' = Count(wfs_sleeps)
    /\ WfsEnds("none", NoExc)
    /\ UNCHANGED <<elapsed, response, wfs_exc, refused, wfs_frame>>

\* requests.get raises another RequestException.
WfsRequestException ==
    /\ wfs_pc = "request"
    /\ requests' = Count(requests)
    /\ probe' = "error"
    /\ wfs_pc' = "raised"
    /\ wfs_exc' = Exc("NetworkError", "Network error while waiting for server")
    /\ WfsEnds("raised", wfs_exc')
    /\ UNCHANGED <<elapsed, response, wfs_sleeps, refused, wfs_frame>>

\* ------------------------------------------------------ start_desktop_app
\* validate_script_path: the exception it raises, or NoExc when it returns.
ValidateScriptPath(s, tm) ==
    IF ~s.resolves
    THEN IF tm THEN Exc("UnboundLocalError", "path") ELSE Exc("ValidationError", "Error validating script path")
    ELSE IF ~tm /\ (~s.is_file \/ ~s.py)
         THEN Exc("ValidationError", "Error validating script path")
         ELSE NoExc

\* validate_options: the exception it raises, or NoExc when it returns.
ValidateOptions(o) ==
    IF o.t = "none" THEN NoExc
    ELSE IF ~IsDict(o) THEN Exc("ValidationError", "Options must be a dictionary")
    ELSE IF \E i \in 1..Len(o.v) : ~IsStr(o.v[i][1]) \/ ~IsStr(o.v[i][2])
         THEN Exc("ValidationError", "Option keys and values must be strings")
         ELSE NoExc
\* ... and the dictionary it returns
ValidatedOptions(o) == IF o.t = "none" THEN PyDict(<<>>) ELSE o

ValidateTitle(x) ==
    IF ~IsStr(x) \/ Strip(x.v) = <<>> THEN Exc("ValidationError", "Invalid window title") ELSE NoExc
ValidateWidth(x) ==
    IF ~IsInt(x) \/ x.v <= 0 THEN Exc("ValidationError", "Invalid window width") ELSE NoExc
ValidateHeight(x) ==
    IF ~IsInt(x) \/ x.v <= 0 THEN Exc("ValidationError", "Invalid window height") ELSE NoExc

\* The first exception raised inside the validation try block.
RECURSIVE FirstExc(_)
FirstExc(es) == IF es = <<>> THEN NoExc ELSE IF Head(es) # NoExc THEN Head(es) ELSE FirstExc(Tail(es))
ValidationExc ==
    FirstExc(<< ValidateScriptPath(script_path, test_mode), ValidateOptions(options),
                ValidateTitle(title), ValidateWidth(width), ValidateHeight(height) >>)

\* except ValidationError as e: raise StreamlitAppError(...)
ValidationHandler(e) ==
    IF e.cls = "ValidationError" THEN Exc("StreamlitAppError", "Validation error") ELSE e

\* except Exception as e: raise StreamlitAppError(...)
OuterHandler(e) == Exc("StreamlitAppError", "Failed to start desktop app")

overridden_options ==
    << PyStr("server.address"), PyStr("server.port"),
       PyStr("server.headless"), PyStr("global.developmentMode") >>

\* The dict display that rebinds `options` once the port is known.
MergeOptions(p, o) ==
    DictUpdate(<< <<PyStr("server.address"), PyStr("localhost")>>,
                  <<PyStr("server.port"), PyStr(ToString(p))>>,
                  <<PyStr("server.headless"), PyStr("true")>>,
                  <<PyStr("global.developmentMode"), PyStr("false")>> >>, o)

Alive == proc \in {"booting", "serving", "terminating"}

\* The validation block.
Validate ==
    /\ pc = "validate"
    /\ IF ValidationExc = NoExc
       THEN /\ options' = ValidatedOptions(options)
            /\ pc' = "warn"
            /\ UNCHANGED <<result, error>>
       ELSE /\ result' = "raised"
            /\ error' = ValidationHandler(ValidationExc)
            /\ pc' = "done"
            /\ UNCHANGED options
    /\ UNCHANGED <<in_vars, exc, warnings, port, calls, proc, proc_args, argv, listener, cleanup_alive,
                   ffp_vars, wfs_vars, window>>

\* Variant: the four warnings are logged whatever the options hold.
WarnOverridden_All ==
    /\ pc = "warn"
    /\ warnings' = overridden_options
    /\ pc' = "find_port"
    /\ UNCHANGED <<in_vars, options, exc, result, error, port, calls, proc, proc_args, argv, listener,
                   cleanup_alive, ffp_vars, wfs_vars, window>>

\* One warning for each reserved key found in the caller's options.
WarnOverridden ==
    /\ pc = "warn"
    /\ warnings' = SelectSeq(overridden_options, LAMBDA k : HasKey(options.v, k))
    /\ pc' = "find_port"
    /\ UNCHANGED <<in_vars, options, exc, result, error, port, calls, proc, proc_args, argv, listener,
                   cleanup_alive, ffp_vars, wfs_vars, window>>

\* port = find_free_port()
CallFindFreePort ==
    /\ pc = "find_port"
    /\ calls' = Append(calls, "find_free_port")
    /\ min_port' = DefaultMinPort /\ max_port' = DefaultMaxPort
    /\ max_attempts' = DefaultMaxAttempts
    /\ attempt' = 0 /\ ffp_pc' = "attempt"
    /\ pc' = "in_find_free_port"
    /\ UNCHANGED <<in_vars, options, exc, result, error, warnings, port, proc, proc_args, argv, listener,
                   cleanup_alive, ffp_port, binds, ffp_sleeps, bind_errors, sock, open_socks,
                   wfs_vars, window>>

\* The frame of a call is gone once start_desktop_app has taken its outcome:
\* the locals and the per-call counters go back to their idle values.
FfpFrameGone ==
    /\ ffp_pc' = "idle" /\ attempt' = 0 /\ ffp_port' = 0 /\ binds' = 0 /\ ffp_sleeps' = 0
    /\ bind_errors' = 0 /\ sock' = "none" /\ open_socks' = 0
WfsFrameGone ==
    /\ wfs_pc' = "idle" /\ elapsed' = 0 /\ response' = 0 /\ requests' = 0 /\ wfs_sleeps' = 0
    /\ probe' = "none" /\ refused' = 0

\* Variant: the Process is built before the allocator's failure is raised.
PortFails_AfterProcess ==
    /\ pc = "in_find_free_port" /\ ffp_pc = "raised"
    /\ exc' = Exc("StreamlitAppError", "Port binding error")
    /\ result' = "raised"
    /\ error' = OuterHandler(exc')
    /\ pc' = "done"
    /\ proc' = "created"
    /\ calls' = Append(calls, "Process")
    /\ FfpFrameGone
    /\ UNCHANGED <<in_vars, options, warnings, port, proc_args, argv, listener, cleanup_alive,
                   min_port, max_port, max_attempts, wfs_vars, window>>

\* find_free_port raised PortBindingError: no process exists yet, the error
\* is wrapped and leaves through the outer handler.
PortFails ==
    /\ pc = "in_find_free_port" /\ ffp_pc = "raised"
    /\ exc' = Exc("StreamlitAppError", "Port binding error")
    /\ result' = "raised"
    /\ error' = OuterHandler(exc')
    /\ pc' = "done"
    /\ FfpFrameGone
    /\ UNCHANGED <<in_vars, options, warnings, port, calls, proc, proc_args, argv, listener, cleanup_alive,
                   min_port, max_port, max_attempts, wfs_vars, window>>

\* Variant: a reserved key the caller supplied is dropped from the set.
CreateProcess_DropsOverridden ==
    /\ pc = "in_find_free_port" /\ ffp_pc = "returned"
    /\ port' = ffp_port
    /\ options' = PyDict(SelectSeq(MergeOptions(port', options.v),
                                   LAMBDA e : ~HasKey(options.v, e[1]) \/ e[1] \notin
                                       {overridden_options[i] : i \in 1..Len(overridden_options)}))
    /\ proc' = "created"
    /\ proc_args' = <<script_path, options'>>
    /\ calls' = Append(calls, "Process")
    /\ pc' = "start"
    /\ FfpFrameGone
    /\ UNCHANGED <<in_vars, exc, result, error, warnings, argv, listener, cleanup_alive,
                   min_port, max_port, max_attempts, wfs_vars, window>>

\* find_free_port returned: merge the options and build the Process.
CreateProcess ==
    /\ pc = "in_find_free_port" /\ ffp_pc = "returned"
    /\ port' = ffp_port
    /\ options' = PyDict(MergeOptions(port', options.v))
    /\ proc' = "created"
    /\ proc_args' = <<script_path, options'>>
    /\ calls' = Append(calls, "Process")
    /\ pc' = "start"
    /\ FfpFrameGone
    /\ UNCHANGED <<in_vars, exc, result, error, warnings, argv, listener, cleanup_alive,
                   min_port, max_port, max_attempts, wfs_vars, window>>

\* streamlit_process.start()
StartProcess ==
    /\ pc = "start"
    /\ calls' = Append(calls, "start")
    /\ proc' = "booting"
    /\ pc' = "wait"
    /\ UNCHANGED <<in_vars, options, exc, result, error, warnings, port, proc_args, argv, listener,
                   cleanup_alive, ffp_vars, wfs_vars, window>>

\* Variant: the failure of start() is swallowed and the probing begins.
StartProcessFails_Ignored ==
    /\ pc = "start"
    /\ calls' = Append(calls, "start")
    /\ pc' = "wait"
    /\ UNCHANGED <<in_vars, options, exc, result, error, warnings, port, proc, proc_args,
                   argv, listener, cleanup_alive, ffp_vars, wfs_vars, window>>

\* streamlit_process.start() raises: no child runs.
StartProcessFails ==
    /\ pc = "start"
    /\ calls' = Append(calls, "start")
    /\ exc' = Exc("OSError", "start")
    /\ pc' = "finally"
    /\ UNCHANGED <<in_vars, options, result, error, warnings, port, proc, proc_args, argv, listener,
                   cleanup_alive, ffp_vars, wfs_vars, window>>

\* wait_for_server(port)
CallWaitForServer ==
    /\ pc = "wait"
    /\ calls' = Append(calls, "wait_for_server")
    /\ timeout' = DefaultTimeout /\ retry_interval' = DefaultRetryInterval
    /\ elapsed' = 0 /\ wfs_pc' = "request"
    /\ pc' = "in_wait_for_server"
    /\ UNCHANGED <<in_vars, options, exc, result, error, warnings, port, proc, proc_args, argv, listener,
                   cleanup_alive, ffp_vars, response, requests, wfs_sleeps, wfs_exc, probe, refused,
                   window>>

\* Variant: the readiness failure is swallowed and the cleanup runs as after
\* a normal end.
WaitFails_Swallowed ==
    /\ pc = "in_wait_for_server" /\ wfs_pc = "raised"
    /\ pc' = "finally"
    /\ WfsFrameGone
    /\ UNCHANGED <<in_vars, options, exc, result, error, warnings, port, calls, proc,
                   proc_args, argv, listener, cleanup_alive, ffp_vars, timeout, retry_interval, wfs_exc,
                   window>>

\* Variant: the wait is given up as soon as the child is seen dead.
WaitFails_ChildDead ==
    /\ pc = "in_wait_for_server" /\ (wfs_pc = "raised" \/ proc = "exited")
    /\ exc' = Exc("StreamlitAppError", "Server startup error")
    /\ pc' = "finally"
    /\ WfsFrameGone
    /\ UNCHANGED <<in_vars, options, result, error, warnings, port, calls, proc, proc_args,
                   argv, listener, cleanup_alive, ffp_vars, timeout, retry_interval, wfs_exc,
                   window>>

\* wait_for_server raised TimeoutError or NetworkError.
WaitFails ==
    /\ pc = "in_wait_for_server" /\ wfs_pc = "raised"
    /\ exc' = Exc("StreamlitAppError", "Server startup error")
    /\ pc' = "finally"
    /\ WfsFrameGone
    /\ UNCHANGED <<in_vars, options, result, error, warnings, port, calls, proc, proc_args, argv, listener,
                   cleanup_alive, ffp_vars, timeout, retry_interval, wfs_exc, window>>

\* Variant: the window is created whatever way wait_for_server ended.
CreateWindow_Unready ==
    /\ pc = "in_wait_for_server" /\ wfs_pc \in {"returned", "raised"}
    /\ calls' = Append(calls, "create_window")
    /\ window' = "created"
    /\ pc' = "webview_start"
    /\ WfsFrameGone
    /\ UNCHANGED <<in_vars, options, exc, result, error, warnings, port, proc, proc_args, argv, listener,
                   cleanup_alive, ffp_vars, timeout, retry_interval, wfs_exc>>

\* wait_for_server returned: webview.create_window(...)
CreateWindow ==
    /\ pc = "in_wait_for_server" /\ wfs_pc = "returned"
    /\ calls' = Append(calls, "create_window")
    /\ window' = "created"
    /\ pc' = "webview_start"
    /\ WfsFrameGone
    /\ UNCHANGED <<in_vars, options, exc, result, error, warnings, port, proc, proc_args, argv, listener,
                   cleanup_alive, ffp_vars, timeout, retry_interval, wfs_exc>>

\* webview.create_window raises.
CreateWindowFails ==
    /\ pc = "in_wait_for_server" /\ wfs_pc = "returned"
    /\ calls' = Append(calls, "create_window")
    /\ exc' = Exc("StreamlitAppError", "Webview error")
    /\ pc' = "finally"
    /\ WfsFrameGone
    /\ UNCHANGED <<in_vars, options, result, error, warnings, port, proc, proc_args, argv, listener,
                   cleanup_alive, ffp_vars, timeout, retry_interval, wfs_exc, window>>

\* webview.start() is entered and blocks while the window is open.
WebviewStart ==
    /\ pc = "webview_start"
    /\ calls' = Append(calls, "webview.start")
    /\ window' = "open"
    /\ pc' = "in_webview"
    /\ UNCHANGED <<in_vars, options, exc, result, error, warnings, port, proc, proc_args, argv, listener,
                   cleanup_alive, ffp_vars, wfs_vars>>

\* The user closes the window: webview.start() returns.
WebviewReturns ==
    /\ pc = "in_webview"
    /\ window' = "closed"
    /\ pc' = "finally"
    /\ UNCHANGED <<in_vars, options, exc, result, error, warnings, port, calls, proc,
                   proc_args, argv, listener, cleanup_alive, ffp_vars, wfs_vars>>

\* webview.start() raises.
WebviewFails ==
    /\ pc = "in_webview"
    /\ window' = "closed"
    /\ exc' = Exc("StreamlitAppError", "Webview error")
    /\ pc' = "finally"
    /\ UNCHANGED <<in_vars, options, result, error, warnings, port, calls, proc,
                   proc_args, argv, listener, cleanup_alive, ffp_vars, wfs_vars>>

\* Leaving the outer try: a normal return, or the exception in flight wrapped.
Leave ==
    IF exc = NoExc
    THEN result' = "returned" /\ error' = NoExc
    ELSE result' = "raised" /\ error' = OuterHandler(exc)

\* Variant: the cleanup joins without sending the termination signal.
Finally_NoTerminate ==
    /\ pc = "finally"
    /\ cleanup_alive' = IF Alive THEN "yes" ELSE "no"
    /\ IF Alive
       THEN /\ calls' = Append(calls, "join")
            /\ pc' = "in_join"
            /\ UNCHANGED <<result, error, proc>>
       ELSE /\ Leave
            /\ pc' = "done"
            /\ UNCHANGED <<calls, proc>>
    /\ UNCHANGED <<in_vars, options, exc, warnings, port, proc_args, argv, listener,
                   ffp_vars, wfs_vars, window>>

\* finally: if streamlit_process.is_alive(): terminate(); join()
Finally ==
    /\ pc = "finally"
    /\ cleanup_alive' = IF Alive THEN "yes" ELSE "no"
    /\ IF Alive
       THEN /\ calls' = calls \o <<"terminate", "join">>
            /\ proc' = "terminating"
            /\ pc' = "in_join"
            /\ UNCHANGED <<result, error>>
       ELSE /\ Leave
            /\ pc' = "done"
            /\ UNCHANGED <<calls, proc>>
    /\ UNCHANGED <<in_vars, options, exc, warnings, port, proc_args, argv, listener,
                   ffp_vars, wfs_vars, window>>

\* Variant: a join that gives up waiting (join with a timeout that expired).
JoinReturns_NoWait ==
    /\ pc = "in_join"
    /\ Leave
    /\ pc' = "done"
    /\ UNCHANGED <<in_vars, options, exc, warnings, port, calls, proc, proc_args, argv, listener,
                   cleanup_alive, ffp_vars, wfs_vars, window>>

\* join() returns once the child has exited.
JoinReturns ==
    /\ pc = "in_join" /\ proc = "exited"
    /\ Leave
    /\ pc' = "done"
    /\ UNCHANGED <<in_vars, options, exc, warnings, port, calls, proc, proc_args, argv, listener,
                   cleanup_alive, ffp_vars, wfs_vars, window>>

\* --------------------------------------------------------- the child process
\* How a call of run_streamlit ends, seen by a direct caller.
RsEnds(kind, e) ==
    IF entry = "run_streamlit"
    THEN result' = kind /\ error' = e
    ELSE UNCHANGED <<result, error>>

\* str(script_path). start_desktop_app passes a string already, which is kept
\* here as what the file system says about it.
Str(x) == IF "t" \in DOMAIN x THEN PyStr(x.v) ELSE x
\* How an f-string renders a value.
Format(x) == IF IsInt(x) THEN ToString(x.v) ELSE x.v
\* f"--{key}={value}"
Flag(key, value) == PyStr(<<"--", Format(key), "=", Format(value)>>)
\* args = ["streamlit", "run", script_path] extended by one flag per item
Args(sp, o) ==
    <<PyStr("streamlit"), PyStr("run"), Str(sp)>> \o [i \in 1..Len(o) |-> Flag(o[i][1], o[i][2])]

\* run_streamlit sets sys.argv and enters stcli.main(), in the child or in
\* the process of a direct caller.
RunStreamlit ==
    /\ argv = <<>>
    /\ proc = "booting" \/ (entry = "run_streamlit" /\ result = "none")
    /\ argv' = Args(proc_args[1], proc_args[2].v)
    /\ UNCHANGED <<in_vars, options, pc, exc, result, error, warnings, port, calls, proc,
                   proc_args, listener, cleanup_alive, ffp_vars, wfs_vars, window>>

\* stcli.main() returns to a direct caller of run_streamlit.
RunStreamlitReturns ==
    /\ entry = "run_streamlit" /\ argv # <<>> /\ result = "none"
    /\ RsEnds("returned", NoExc)
    /\ UNCHANGED <<in_vars, options, pc, exc, warnings, port, calls, proc, proc_args, argv, listener,
                   cleanup_alive, ffp_vars, wfs_vars, window>>

\* stcli.main() raises: except Exception as e: raise ProcessError(...)
RunStreamlitFails ==
    /\ entry = "run_streamlit" /\ argv # <<>> /\ result = "none"
    /\ RsEnds("raised", Exc("ProcessError", "Failed to run Streamlit"))
    /\ UNCHANGED <<in_vars, options, pc, exc, warnings, port, calls, proc, proc_args, argv, listener,
                   cleanup_alive, ffp_vars, wfs_vars, window>>

\* stcli.main() in the child binds the port, which nobody else holds, and
\* answers requests.
ChildServes ==
    /\ proc = "booting" /\ argv # <<>>
    /\ listener = "none"
    /\ proc' = "serving"
    /\ listener' = "child"
    /\ UNCHANGED <<in_vars, options, pc, exc, result, error, warnings, port, calls,
                   proc_args, argv, cleanup_alive, ffp_vars, wfs_vars, window>>

\* The child exits: on its own (the port being taken is one reason), or after
\* the termination signal. Its port is free again.
ChildExits ==
    /\ Alive
    /\ proc' = "exited"
    /\ listener' = IF listener = "child" THEN "none" ELSE listener
    /\ UNCHANGED <<in_vars, options, pc, exc, result, error, warnings, port, calls,
                   proc_args, argv, cleanup_alive, ffp_vars, wfs_vars, window>>

\* ------------------------------------------------------- the rest of the host
\* The port find_free_port returned is held by nobody once the with block
\* has closed the probing socket.
PortAllocated == (pc = "in_find_free_port" /\ ffp_pc = "returned") \/ port # 0

\* Another process of the host binds the allocated port while it is free.
OtherBinds ==
    /\ entry = "start_desktop_app" /\ result = "none"
    /\ PortAllocated /\ listener = "none"
    /\ listener' = "other"
    /\ UNCHANGED <<in_vars, options, pc, exc, result, error, warnings, port, calls, proc,
                   proc_args, argv, cleanup_alive, ffp_vars, wfs_vars, window>>

\* ------------------------------------------------------------ specification
Next ==
    \/ FfpSocket \/ FfpBindFails \/ FfpBindSucceeds \/ FfpExhausted
    \/ WfsCall \/ WfsResponse \/ WfsConnectionError \/ WfsSleepReturns \/ WfsRequestException
    \/ Validate \/ WarnOverridden \/ CallFindFreePort \/ PortFails \/ CreateProcess
    \/ StartProcess \/ StartProcessFails \/ CallWaitForServer \/ WaitFails
    \/ CreateWindow \/ CreateWindowFails \/ WebviewStart \/ WebviewReturns \/ WebviewFails
    \/ Finally \/ JoinReturns \/ ChildServes \/ ChildExits
    \/ RunStreamlit \/ RunStreamlitReturns \/ RunStreamlitFails
    \/ OtherBinds

Spec == Init /\ [][Next]_vars

\* Fairness: wait_for_server keeps executing while it has a step to take.
WfsStep == WfsCall \/ WfsResponse \/ WfsConnectionError \/ WfsSleepReturns \/ WfsRequestException
FairSpec == Init /\ [][Next]_vars /\ WF_vars(WfsStep)
\* Fairness: a join whose child has exited returns.
JoinFairSpec == Init /\ [][Next]_vars /\ WF_vars(JoinReturns)

\* =================================================================== claims
AppRun == entry = "start_desktop_app"
Called(c) == \E i \in 1..Len(calls) : calls[i] = c
CountOf(c) == Cardinality({i \in 1..Len(calls) : calls[i] = c})
IndexOf(c) == CHOOSE i \in 1..Len(calls) : calls[i] = c
\* start() was called and did not raise
ChildStarted == proc \notin {"none", "created"}
Ended == result # "none"

\* C1: whenever start_desktop_app returns or raises after the child was
\* started, the child is not running at that moment.
C1_NoLiveChildAtExit == (AppRun /\ Ended /\ ChildStarted) => ~Alive
\* C1 witness: a run that raised after the child had to be terminated and joined.
C1_Witness ==
    AppRun /\ result = "raised" /\ ChildStarted /\ cleanup_alive = "yes" /\ proc = "exited"

\* C2 as stated: in every run that started the child, terminate and join are
\* each invoked exactly once before the exit, whatever the child's state.
C2_AlwaysTerminateJoinOnce ==
    (AppRun /\ Ended /\ ChildStarted) => (CountOf("terminate") = 1 /\ CountOf("join") = 1)
\* C2 amended: terminate and then join are each invoked exactly once when the
\* child is alive at the is_alive() test of the cleanup, and neither is
\* invoked when the child has already exited by then.
C2_TerminateJoinOnceIfAlive ==
    (AppRun /\ Ended /\ ChildStarted) =>
        /\ cleanup_alive \in {"yes", "no"}
        /\ cleanup_alive = "yes" =>
              /\ CountOf("terminate") = 1 /\ CountOf("join") = 1
              /\ IndexOf("terminate") < IndexOf("join")
        /\ cleanup_alive = "no" => (CountOf("terminate") = 0 /\ CountOf("join") = 0)
\* C2 witness: the readiness probe failed with the child alive, and the run
\* ended after terminate and join.
C2_Witness ==
    /\ AppRun /\ Ended /\ ChildStarted /\ cleanup_alive = "yes"
    /\ exc = Exc("StreamlitAppError", "Server startup error")
    /\ Called("terminate") /\ Called("join")

\* C3: the Configuration Set passed to the child always has
\* server.address=localhost, server.port=<allocated port>, server.headless=true
\* and global.developmentMode=false, whatever the caller's options contain.
C3_ReservedKeysWin ==
    (AppRun /\ proc # "none") =>
        LET conf == proc_args[2].v IN
        /\ DictGet(conf, PyStr("server.address")) = PyStr("localhost")
        /\ DictGet(conf, PyStr("server.port")) = PyStr(ToString(port))
        /\ DictGet(conf, PyStr("server.headless")) = PyStr("true")
        /\ DictGet(conf, PyStr("global.developmentMode")) = PyStr("false")

\* C4: wait_for_server returns on the first HTTP response it receives,
\* whatever the status code: once a response is in hand the loop is over.
C4_FirstResponseReturns == (response # 0) => (wfs_pc = "returned")

\* C5: wait_for_server always terminates: from polling it eventually ends in
\* ready (return), timed_out (TimeoutError) or network_failed (NetworkError).
C5_WaitTerminates == (wfs_pc = "request") ~> (wfs_pc \in {"returned", "raised"})

StageRank(c) ==
    CASE c = "find_free_port" -> 1 [] c = "Process" -> 2 [] c = "start" -> 3
      [] c = "wait_for_server" -> 4 [] c = "create_window" -> 5
      [] c = "webview.start" -> 6 [] c = "terminate" -> 7 [] c = "join" -> 8

\* C6: within one run the stages happen in sequence and each at most once:
\* port allocation, process creation, start, readiness probing, window
\* creation, window run, terminate, join; the window is created only after
\* wait_for_server returned successfully, never in a run whose probe failed,
\* and terminate/join come only after the readiness/window stage has ended.
C6_StagesInSequence ==
    AppRun =>
        /\ \A i, j \in 1..Len(calls) : i < j => StageRank(calls[i]) < StageRank(calls[j])
        /\ Called("Process") => port # 0
        /\ ffp_pc \in {"attempt", "returned", "raised"} => calls = <<"find_free_port">>
        /\ wfs_pc \in {"request", "sleep", "returned", "raised"} =>
              /\ calls = <<"find_free_port", "Process", "start", "wait_for_server">>
              /\ window = "none"
        /\ requests > 0 => Called("start")
        /\ (Called("create_window") \/ window # "none") =>
              (Called("wait_for_server") /\ wfs_exc = NoExc /\ wfs_pc = "idle")
        /\ Called("terminate") => (wfs_pc = "idle" /\ window \in {"none", "closed"})
\* C6 witness: a run that went through every stage and returned.
C6_Witness ==
    /\ AppRun /\ result = "returned"
    /\ calls = <<"find_free_port", "Process", "start", "wait_for_server",
                 "create_window", "webview.start", "terminate", "join">>

\* The inputs the validation is meant to reject.
InvalidInput ==
    \/ ~test_mode /\ ~(script_path.resolves /\ script_path.is_file /\ script_path.py)
    \/ ~IsStr(title) \/ title.v = <<>> \/ \A i \in 1..Len(title.v) : title.v[i] = " "
    \/ ~IsInt(width) \/ width.v < 1
    \/ ~IsInt(height) \/ height.v < 1
    \/ /\ caller_options.t # "none"
       /\ \/ ~IsDict(caller_options)
          \/ \E i \in 1..Len(caller_options.v) :
                ~IsStr(caller_options.v[i][1]) \/ ~IsStr(caller_options.v[i][2])

\* C7: an invalid input makes start_desktop_app fail with a validation error
\* before any resource is acquired: no find_free_port call, no child process,
\* no probe, no window.
C7_InvalidInputFailsFast ==
    (AppRun /\ InvalidInput /\ pc # "validate") =>
        /\ result = "raised"
        /\ error = Exc("StreamlitAppError", "Validation error")
        /\ calls = <<>> /\ proc = "none" /\ requests = 0 /\ window = "none"

\* C8: when find_free_port fails with PortBindingError, start_desktop_app
\* raises StreamlitAppError and no process is created or started, no
\* wait_for_server call is made, no window is created, nothing is terminated
\* or joined.
C8_PortFailureSpawnsNothing ==
    /\ []((AppRun /\ (ffp_pc = "raised" \/ exc = Exc("StreamlitAppError", "Port binding error"))) =>
            /\ calls = <<"find_free_port">>
            /\ proc = "none" /\ wfs_pc = "idle" /\ requests = 0 /\ window = "none")
    /\ [][(AppRun /\ ffp_pc = "raised") =>
            (result' = "raised" /\ error'.cls = "StreamlitAppError" /\ pc' = "done")]_vars
\* C8 witness: a run that ended on the allocator's failure.
C8_Witness ==
    AppRun /\ result = "raised" /\ exc = Exc("StreamlitAppError", "Port binding error")

\* C9: every failure that leaves start_desktop_app is a StreamlitAppError,
\* whichever stage it comes from.
C9_OnlyStreamlitAppErrorEscapes ==
    (AppRun /\ result = "raised") => error.cls = "StreamlitAppError"

\* C10: any port find_free_port returns lies in [min_port, max_port].
C10_ReturnedPortInRange ==
    /\ ffp_pc = "returned" => (min_port <= ffp_port /\ ffp_port <= max_port)
    /\ (AppRun /\ port # 0) => (DefaultMinPort <= port /\ port <= DefaultMaxPort)
\* C10 witness: a direct call that returned after a failed bind and an
\* out-of-range port.
C10_Witness ==
    /\ entry = "find_free_port" /\ result = "returned"
    /\ binds = 3 /\ ffp_sleeps = 1 /\ attempt = 2

\* C11: when the bind fails on the first k attempts (k < max_attempts) and
\* then succeeds with an in-range port, find_free_port returns after exactly
\* k + 1 bind attempts and exactly k sleeps.
C11_RetriesThenReturns ==
    (ffp_pc = "returned" /\ binds = bind_errors + 1) =>
        /\ ffp_sleeps = bind_errors
        /\ attempt = bind_errors
        /\ bind_errors < max_attempts
        /\ InRange(ffp_port)
\* C11 witness: two failed binds, then a port in range (the tested case).
C11_Witness ==
    /\ entry = "find_free_port" /\ result = "returned"
    /\ bind_errors = 2 /\ binds = 3 /\ ffp_sleeps = 2

\* C12: when the bind fails on max_attempts >= 1 consecutive attempts,
\* find_free_port raises PortBindingError after exactly max_attempts binds
\* and max_attempts - 1 sleeps.
C12_AllBindsFail ==
    (max_attempts >= 1 /\ bind_errors = max_attempts) =>
        /\ ffp_pc = "raised"
        /\ binds = max_attempts
        /\ ffp_sleeps = max_attempts - 1
        /\ entry = "find_free_port" => (result = "raised" /\ error.cls = "PortBindingError")
\* C12 witness: three attempts allowed, three failed binds.
C12_Witness ==
    /\ entry = "find_free_port" /\ max_attempts = 3 /\ bind_errors = 3
    /\ result = "raised" /\ ffp_sleeps = 2

\* Once wait_for_server has raised it issues no request and sleeps no more;
\* inside start_desktop_app the only step left is the caller taking the outcome.
WfsOverOnceRaised ==
    (wfs_pc = "raised") =>
        \/ wfs_pc' = "idle"
        \/ wfs_pc' = "raised" /\ requests' = requests /\ wfs_sleeps' = wfs_sleeps

\* C13: when the first k probes are refused without the timeout being
\* exceeded and probe k + 1 is answered successfully, wait_for_server returns
\* after exactly k + 1 requests and exactly k sleeps.
C13_RefusedThenReady ==
    /\ (probe = "response" /\ response = 200) => wfs_pc = "returned"
    /\ (wfs_pc = "returned" /\ requests < MaxCount /\ refused = requests - 1) =>
        /\ wfs_sleeps = refused
        /\ probe = "response" /\ response = 200
        /\ entry = "wait_for_server" => result = "returned"
\* C13 witness: two refused probes, then status 200 (the tested case).
C13_Witness ==
    /\ entry = "wait_for_server" /\ result = "returned"
    /\ requests = 3 /\ refused = 2 /\ wfs_sleeps = 2

\* C14: on a refused probe wait_for_server raises TimeoutError exactly when
\* the elapsed time is greater than timeout, never while it is at most
\* timeout; no sleep and no request follow the probe that timed out.
C14_TimeoutOnlyPastDeadline ==
    /\ []((probe = "refused" /\ wfs_pc \in {"sleep", "raised"}) =>
            ((elapsed > timeout) <=> (wfs_pc = "raised" /\ wfs_exc.cls = "TimeoutError")))
    /\ []((wfs_pc = "raised" /\ wfs_exc.cls = "TimeoutError") => probe = "refused")
    /\ [][WfsOverOnceRaised]_vars
\* C14 witness: refused probes up to the deadline, then the one past it.
C14_Witness ==
    /\ entry = "wait_for_server" /\ result = "raised" /\ error.cls = "TimeoutError"
    /\ timeout = 2 /\ wfs_sleeps = 2 /\ refused = 3

\* C15: a request error that is not a connection error makes wait_for_server
\* raise NetworkError at once, with no further request and no sleep, however
\* much of the timeout remains.
C15_NetworkErrorAtOnce ==
    /\ [](probe = "error" => (wfs_pc = "raised" /\ wfs_exc.cls = "NetworkError"))
    /\ [][(wfs_pc = "request" /\ probe' = "error") =>
            (wfs_sleeps' = wfs_sleeps /\ elapsed' = elapsed)]_vars
    /\ [][(wfs_pc = "raised" /\ wfs_pc' = "raised") =>
            (requests' = requests /\ wfs_sleeps' = wfs_sleeps)]_vars
\* C15 witness: the first probe fails with a request error, the timeout untouched.
C15_Witness ==
    /\ entry = "wait_for_server" /\ result = "raised" /\ error.cls = "NetworkError"
    /\ requests = 1 /\ elapsed = 0 /\ timeout = 2

\* C16 as stated: start_desktop_app returns normally only after the window
\* session has ended and the child process has been joined.
C16_ReturnsOnlyAfterJoin ==
    (AppRun /\ result = "returned") =>
        /\ window = "closed" /\ Called("webview.start")
        /\ Called("wait_for_server") /\ wfs_exc = NoExc
        /\ Called("join")
\* C16 amended: start_desktop_app returns normally only after the readiness
\* probe has succeeded, the window session has ended and the child is no
\* longer alive: joined when it was still alive at the is_alive() test of the
\* cleanup, not joined when it had already exited.
C16_ReturnsOnlyAfterWindowAndChildEnd ==
    (AppRun /\ result = "returned") =>
        /\ window = "closed" /\ Called("create_window") /\ Called("webview.start")
        /\ Called("wait_for_server") /\ wfs_exc = NoExc /\ exc = NoExc
        /\ proc = "exited"
        /\ cleanup_alive \in {"yes", "no"}
        /\ (cleanup_alive = "yes") <=> Called("join")
\* C16 witness: a normal return of a run whose child had exited on its own
\* before the cleanup.
C16_Witness ==
    AppRun /\ result = "returned" /\ window = "closed" /\ cleanup_alive = "no"

CallerKeys == IF IsDict(caller_options) THEN DictKeys(caller_options.v) ELSE {}
WarnCount(k) == Cardinality({i \in 1..Len(warnings) : warnings[i] = k})
WarningsRecorded ==
    \A i \in 1..Len(overridden_options) :
        WarnCount(overridden_options[i]) = IF overridden_options[i] \in CallerKeys THEN 1 ELSE 0

\* C17: for options that pass validation, exactly one warning is recorded for
\* each reserved key present in the caller's options and none for an absent
\* key, and this is done before the port is allocated and the child started.
C17_OneWarningPerReservedKey ==
    AppRun =>
        /\ pc \in {"validate", "warn"} => (calls = <<>> /\ warnings = <<>>)
        /\ (pc \notin {"validate", "warn", "done"} \/ calls # <<>> \/ port # 0 \/ proc # "none")
              => WarningsRecorded
\* C17 witness: two reserved keys among the caller's three options, both
\* warned about, nothing called yet.
C17_Witness ==
    /\ AppRun /\ pc = "find_port" /\ calls = <<>>
    /\ warnings = <<PyStr("server.address"), PyStr("server.headless")>>

ReservedKeys == {overridden_options[i] : i \in 1..Len(overridden_options)}
\* the caller's entries the reserved keys do not cover, in insertion order
CallerEntries ==
    IF IsDict(caller_options)
    THEN SelectSeq(caller_options.v, LAMBDA e : e[1] \notin ReservedKeys)
    ELSE <<>>
FlagText(i) == argv[3 + i].v

\* C18: the argument vector run_streamlit installs is [runner, "run",
\* script_path] followed by exactly one "--key=value" flag per entry of the
\* Configuration Set, in the set's order; for a set built by
\* start_desktop_app the flags of the four reserved settings come first,
\* followed by the caller's entries in the caller's insertion order.
C18_ArgvFollowsConfigSet ==
    argv # <<>> =>
        LET conf == proc_args[2].v IN
        /\ Len(argv) = 3 + Len(conf)
        /\ argv[1] = PyStr("streamlit") /\ argv[2] = PyStr("run")
        /\ entry = "run_streamlit" => argv[3] = PyStr("test_script.py")
        /\ AppRun => argv[3] = script_path
        /\ \A i \in 1..Len(conf) :
              /\ Len(FlagText(i)) = 4
              /\ FlagText(i)[1] = "--" /\ FlagText(i)[3] = "="
              /\ FlagText(i)[2] = conf[i][1].v
              /\ FlagText(i)[4] = IF IsInt(conf[i][2]) THEN ToString(conf[i][2].v) ELSE conf[i][2].v
        /\ AppRun =>
              /\ Len(conf) = 4 + Len(CallerEntries)
              /\ FlagText(1) = <<"--", "server.address", "=", "localhost">>
              /\ FlagText(2) = <<"--", "server.port", "=", ToString(port)>>
              /\ FlagText(3) = <<"--", "server.headless", "=", "true">>
              /\ FlagText(4) = <<"--", "global.developmentMode", "=", "false">>
              /\ \A i \in 1..Len(CallerEntries) :
                    FlagText(4 + i) = <<"--", CallerEntries[i][1].v, "=", CallerEntries[i][2].v>>

OutOfRangeAttempt ==
    /\ ffp_pc = "attempt" /\ binds' = binds + 1 /\ bind_errors' = bind_errors
    /\ ffp_pc' # "returned"

\* C20: an attempt of find_free_port whose OS-assigned port is out of range is
\* not fatal: it consumes one attempt, sleeps not at all and leaves the loop
\* running; when all max_attempts attempts bind to out-of-range ports,
\* PortBindingError is raised after exactly max_attempts binds and no sleep.
C20_OutOfRangeConsumesAttempt ==
    /\ [][OutOfRangeAttempt =>
            /\ attempt' = attempt + 1 /\ ffp_sleeps' = ffp_sleeps
            /\ ffp_pc' = "attempt" /\ result' = result]_vars
    /\ []((ffp_pc = "raised" /\ bind_errors = 0) =>
            /\ binds = max_attempts /\ attempt = max_attempts /\ ffp_sleeps = 0
            /\ entry = "find_free_port" => (result = "raised" /\ error.cls = "PortBindingError"))
    /\ []((ffp_pc = "attempt" /\ bind_errors = 0) => (binds = attempt /\ ffp_sleeps = 0))
\* C20 witness: a direct call with max_attempts = 3 raised PortBindingError
\* after three binds to out-of-range ports and no sleep.
C20_Witness ==
    /\ entry = "find_free_port" /\ max_attempts = 3 /\ binds = 3 /\ bind_errors = 0
    /\ ffp_sleeps = 0 /\ result = "raised" /\ error.cls = "PortBindingError"

\* C21: from the moment find_free_port has returned the port until the run
\* ends, no process other than the run's own child is bound to the port; in
\* particular nobody takes it between the allocator closing its probing
\* socket and the child binding it.
C21_PortOwnedExclusively ==
    (AppRun /\ PortAllocated /\ ~Ended) => listener \in {"none", "child"}

\* C22: the join of the cleanup has no timeout. While the child that was
\* alive at cleanup has not exited, start_desktop_app stays in join and
\* neither returns nor raises; once the child has exited after terminate,
\* the cleanup completes and the pending result is delivered: a normal
\* return, or the error in flight wrapped.
C22_JoinWaitsForExit ==
    /\ [][(pc = "in_join" /\ proc' # "exited") => (pc' = "in_join" /\ result' = "none")]_vars
    /\ [](pc = "in_join" =>
            (result = "none" /\ cleanup_alive = "yes" /\ Called("terminate") /\ Called("join")))
    /\ (pc = "in_join" /\ proc = "exited") ~> (pc = "done" /\ Ended)
    /\ []((AppRun /\ Ended /\ cleanup_alive = "yes") =>
            /\ proc = "exited"
            /\ IF exc = NoExc
               THEN result = "returned"
               ELSE result = "raised" /\ error = OuterHandler(exc))
\* C22 witness: start_desktop_app is inside join with an error pending and
\* the child, sent the termination signal, not yet exited.
C22_Witness ==
    AppRun /\ pc = "in_join" /\ proc = "terminating" /\ exc # NoExc /\ result = "none"

\* C23: at most one probing socket is open at any time during a call of
\* find_free_port, and on every way out (an in-range port returned,
\* PortBindingError after a failed last bind, PortBindingError after
\* out-of-range ports only) every socket the call opened has been closed.
C23_ProbingSocketsClosed ==
    /\ open_socks <= 1
    /\ open_socks = IF sock = "open" THEN 1 ELSE 0
    /\ ffp_pc \in {"returned", "raised"} => (sock = "none" /\ open_socks = 0)
    /\ result # "none" => open_socks = 0
\* C23 witness: a direct call returned a port on its third socket, after two
\* failed binds, with no socket left open.
C23_Witness ==
    /\ entry = "find_free_port" /\ result = "returned" /\ binds = 3 /\ bind_errors = 2
    /\ InRange(ffp_port) /\ open_socks = 0

SameEntries(a, b) ==
    /\ DictKeys(a) = DictKeys(b)
    /\ \A k \in DictKeys(a) : DictGet(a, k) = DictGet(b, k)

\* C24: the Configuration Set merge is idempotent: with the allocated port
\* fixed, merging the mandatory entries with the set a first merge produced
\* yields a set with the same keys and the same values.
C24_MergeIdempotent ==
    (AppRun /\ proc # "none") =>
        /\ SameEntries(MergeOptions(port, options.v), options.v)
        /\ Len(MergeOptions(port, options.v)) = Len(options.v)
        /\ proc_args[2] = options
\* C24 witness: the set merged from a caller's options that hold server.port.
C24_Witness ==
    /\ AppRun /\ pc = "start" /\ proc = "created"
    /\ caller_options = PyDict(<< <<PyStr("server.port"), PyStr("9999")>> >>)
    /\ Len(options.v) = 4

InWait == pc = "in_wait_for_server"
\* a probe of a run whose child is dead is refused
RefusedWithDeadChild ==
    /\ AppRun /\ InWait /\ proc = "exited"
    /\ wfs_pc = "request" /\ wfs_pc' # "request" /\ probe' = "refused"

\* C25: start_desktop_app does not look at the child while probing. When the
\* child has exited without ever serving, so that the probes are refused,
\* probing goes on until the elapsed time exceeds the timeout; the
\* TimeoutError then leaves start_desktop_app as StreamlitAppError, no window
\* is created, and the child's death by itself ends nothing in the parent.
C25_ProbesPastChildDeath ==
    /\ [][RefusedWithDeadChild =>
            /\ pc' = pc /\ result' = "none"
            /\ IF elapsed' > timeout
               THEN wfs_pc' = "raised" /\ wfs_exc'.cls = "TimeoutError"
               ELSE wfs_pc' = "sleep"]_vars
    /\ [][(InWait /\ pc' # pc) => wfs_pc \in {"returned", "raised"}]_vars
    /\ [][(AppRun /\ proc # "exited" /\ proc' = "exited") =>
            UNCHANGED <<pc, wfs_vars, result, error, exc, window, calls>>]_vars
    /\ []((AppRun /\ ChildStarted /\ argv = <<>> /\ listener = "none"
             /\ pc \in {"finally", "in_join", "done"}) =>
            /\ window = "none" /\ ~Called("create_window")
            /\ Called("wait_for_server") /\ wfs_exc.cls \in {"TimeoutError", "NetworkError"}
            /\ exc = Exc("StreamlitAppError", "Server startup error")
            /\ Ended => (result = "raised" /\ error.cls = "StreamlitAppError"))
\* C25 witness: the child exited before run_streamlit did anything, every
\* probe was refused, and the wait has just run into the timeout.
C25_Witness ==
    /\ AppRun /\ InWait /\ proc = "exited" /\ argv = <<>> /\ listener = "none"
    /\ wfs_pc = "raised" /\ wfs_exc.cls = "TimeoutError" /\ elapsed > timeout
    /\ refused = requests /\ wfs_sleeps >= 2 /\ window = "none"

\* start() was called and raised: the Process exists and no child runs
StartRaised == AppRun /\ proc = "created" /\ Called("start")

\* C26: when start() raises, start_desktop_app sends no readiness probe and
\* creates no window; the cleanup still runs, finds the child not alive and
\* neither terminates nor joins it; the failure leaves start_desktop_app as
\* StreamlitAppError.
C26_StartFailureCleansUp ==
    StartRaised =>
        /\ pc \in {"finally", "done"}
        /\ ~Called("wait_for_server") /\ wfs_pc = "idle" /\ requests = 0
        /\ ~Called("create_window") /\ ~Called("webview.start") /\ window = "none"
        /\ ~Called("terminate") /\ ~Called("join")
        /\ exc # NoExc
        /\ pc = "finally" => (cleanup_alive = "unknown" /\ result = "none")
        /\ pc = "done" =>
              /\ cleanup_alive = "no"
              /\ result = "raised" /\ error.cls = "StreamlitAppError"
\* C26 witness: a run whose start() raised has ended, after the cleanup
\* found the child not alive.
C26_Witness ==
    /\ StartRaised /\ pc = "done" /\ cleanup_alive = "no"
    /\ calls = <<"find_free_port", "Process", "start">>
    /\ result = "raised" /\ error.cls = "StreamlitAppError"

====
